---------------------------- MODULE Spec2Model ----------------------------
(***************************************************************************)
(* Model of ssh-will-x86.com: the in-process message mailbox (main.go),    *)
(* the delivery endpoint and its listener (server.go), process startup     *)
(* (main.go, main) and the per-connection terminal session (main.go,       *)
(* teaHandler / model.Update / model.View).                                *)
(*                                                                         *)
(* Text (message bodies, names) is a sequence of one-character strings.    *)
(* A Message is a record [From, Content, Timestamp]; Timestamp is the      *)
(* value of time.Now() read inside addMessage, modelled by a clock that    *)
(* advances with every addMessage call.                                    *)
(***************************************************************************)
EXTENDS Integers, Sequences, FiniteSets, TLC

(***************************************************************************)
(* Bounds of the model.                                                    *)
(***************************************************************************)
\* total number of addMessage calls in a run (caps the clock)
MaxMsgs == 2
\* capacity of a text field (textarea / textinput): further input is dropped
MaxLen == 2
\* number of project records loadProjects can return
MaxProjects == 2

Sessions == {"s1", "s2"}
Handlers == {"h1", "h2"}

\* values of the SECRET_KEY environment variable ("" also stands for unset)
EnvValues == {"", "k"}
\* values of the -sK command-line flag; Absent: the flag is not given
Absent == "<absent>"
FlagValues == {Absent, "", "k"}
\* values of the ?secret= query parameter ("" also stands for missing)
QuerySecrets == {"", "k", "x"}

NoHolder == "<none>"
\* no message (an empty response body, an unset local)
NoMsg == [none |-> TRUE]
\* no model: the connection has not been made
NoModel == [none |-> TRUE]
\* a nil *Projects
Nil == -1

VARIABLES
    envSecret,      \* os.Getenv("SECRET_KEY")
    flagSK,         \* the -sK argument on the command line
    secretKey,      \* *secretKey
    mainPc,         \* position of main()
    crashed,        \* "" while the process lives, else the panic that ended it
    webPc,          \* position of the WebServer goroutine
    muxPatterns,    \* patterns registered on http.DefaultServeMux
    listenerFailures, \* how often ListenAndServe has returned an error
    messages,       \* the global slice `messages`
    messagesMu,     \* holder of the write lock of messagesMu, or NoHolder
    clock,          \* time.Now(), advanced by each addMessage
    hpc,            \* position of each request's handler goroutine
    hauth,          \* handler local `auth`
    hfirst,         \* handler local `first` (msgs[0])
    hresp,          \* status of the response written by the handler
    sess,           \* per connection: the bubbletea model, or NoModel
    apc,            \* per connection: position inside addMessage
    atmp,           \* per connection: the slice header addMessage loaded
    submitted,      \* history: messages appended by completed addMessage calls
    delivered       \* history: the message of every 200 response, in order

vars == <<envSecret, flagSK, secretKey, mainPc, crashed, webPc, muxPatterns,
          listenerFailures, messages, messagesMu, clock, hpc, hauth, hfirst,
          hresp, sess, apc, atmp, submitted, delivered>>

startupVars == <<envSecret, flagSK, secretKey, mainPc>>
webVars == <<webPc, muxPatterns, listenerFailures>>
boxVars == <<messages, messagesMu, clock>>
handlerVars == <<hpc, hauth, hfirst, hresp>>
sessVars == <<sess, apc, atmp>>
histVars == <<submitted, delivered>>

(***************************************************************************)
(* Text helpers (strings.TrimSpace).                                       *)
(***************************************************************************)
IsSpace(c) == c \in {" ", "\n"}

RECURSIVE TrimLeft(_)
TrimLeft(t) ==
    IF t # <<>> /\ IsSpace(Head(t)) THEN TrimLeft(Tail(t)) ELSE t

RECURSIVE TrimRight(_)
TrimRight(t) ==
    IF t # <<>> /\ IsSpace(t[Len(t)])
    THEN TrimRight(SubSeq(t, 1, Len(t) - 1))
    ELSE t

\* a trim of the leading white space only
TrimSpaceLeft(t) == TrimLeft(t)

TrimSpace(t) == TrimRight(TrimLeft(t))

(***************************************************************************)
(* Mailbox: messages, messagesMu, addMessage, getMessages, removeMessage.  *)
(***************************************************************************)
Message(from, content, ts) ==
    [From |-> from, Content |-> content, Timestamp |-> ts]

\* messagesMu.Lock() can proceed
CanLockAlways(holder) == TRUE
CanLock(holder) == holder = NoHolder

\* messagesMu.RLock() can proceed
CanRLock(holder) == holder = NoHolder

\* a getMessages whose copy is in reverse order, newest first
getMessagesReversed(msgs) ==
    [i \in 1..Len(msgs) |-> msgs[Len(msgs) + 1 - i]]

\* getMessages: a copy of the slice
getMessages(msgs) == [i \in 1..Len(msgs) |-> msgs[i]]

\* the values a call of removeMessage returns: the function has no result
removeMessageResults(msgs, from, content) == {}

\* index of the first entry the loop of removeMessage matches, 0 if none
RECURSIVE MatchFrom(_, _, _, _)
MatchFrom(msgs, from, content, i) ==
    IF i > Len(msgs) THEN 0
    ELSE IF msgs[i].Content = content /\ msgs[i].From = from THEN i
    ELSE MatchFrom(msgs, from, content, i + 1)

RECURSIVE MatchLastFrom(_, _, _, _)
MatchLastFrom(msgs, from, content, i) ==
    IF i < 1 THEN 0
    ELSE IF msgs[i].Content = content /\ msgs[i].From = from THEN i
    ELSE MatchLastFrom(msgs, from, content, i - 1)

\* mutants of removeMessage: remove the last match; remove every match
removeMessageLast(msgs, from, content) ==
    LET i == MatchLastFrom(msgs, from, content, Len(msgs))
    IN  IF i = 0 THEN msgs
        ELSE SubSeq(msgs, 1, i - 1) \o SubSeq(msgs, i + 1, Len(msgs))

removeMessageAll(msgs, from, content) ==
    SelectSeq(msgs, LAMBDA x : ~(x.Content = content /\ x.From = from))

\* removeMessage: append(messages[:i], messages[i+1:]...) at the first match
removeMessage(msgs, from, content) ==
    LET i == MatchFrom(msgs, from, content, 1)
    IN  IF i = 0 THEN msgs
        ELSE SubSeq(msgs, 1, i - 1) \o SubSeq(msgs, i + 1, Len(msgs))


(***************************************************************************)
(* Process startup: package-level flag definitions and main().             *)
(***************************************************************************)
Alive == crashed = ""

\* flag.String("sK", os.Getenv("SECRET_KEY"), ...): the default of *secretKey
FlagDefault(env) == env

\* flag.Parse(): a flag given on the command line replaces the default
FlagParse(current, arg) == IF arg = Absent THEN current ELSE arg

\* main: if *secretKey == "" { panic("no key set") }
MainCheck ==
    /\ Alive /\ mainPc = "check"
    /\ IF secretKey = ""
       THEN /\ crashed' = "panic: no key set"
            /\ UNCHANGED mainPc
       ELSE /\ mainPc' = "parse"
            /\ UNCHANGED crashed
    /\ UNCHANGED <<envSecret, flagSK, secretKey, webVars, boxVars,
                   handlerVars, sessVars, histVars>>

\* main: flag.Parse()
MainParse ==
    /\ Alive /\ mainPc = "parse"
    /\ secretKey' = FlagParse(secretKey, flagSK)
    /\ mainPc' = "spawn"
    /\ UNCHANGED <<envSecret, flagSK, crashed, webVars, boxVars,
                   handlerVars, sessVars, histVars>>

\* main: go WebServer(serverPort); then the SSH server is built and serves
MainSpawn ==
    /\ Alive /\ mainPc = "spawn"
    /\ webPc' = "register"
    /\ mainPc' = "serve"
    /\ UNCHANGED <<envSecret, flagSK, secretKey, crashed, muxPatterns,
                   listenerFailures, boxVars, handlerVars, sessVars, histVars>>

(***************************************************************************)
(* The delivery listener: WebServer (server.go).                           *)
(***************************************************************************)
Pattern == "/messages/latest"

\* http.HandleFunc panics when the pattern is already registered
HandleFuncPanics(patterns, pattern) == pattern \in patterns

\* WebServer: http.HandleFunc("/messages/latest", recoverWrap(handler)).
\* The panic is raised in the WebServer goroutine, which has no recover:
\* it ends the process.
WebRegister ==
    /\ Alive /\ webPc = "register"
    /\ IF HandleFuncPanics(muxPatterns, Pattern)
       THEN /\ crashed' = "panic: http: multiple registrations"
            /\ UNCHANGED <<webPc, muxPatterns>>
       ELSE /\ muxPatterns' = muxPatterns \cup {Pattern}
            /\ webPc' = "listen"
            /\ UNCHANGED crashed
    /\ UNCHANGED <<startupVars, listenerFailures, boxVars, handlerVars,
                   sessVars, histVars>>

\* WebServer: http.ListenAndServe binds the port and serves
WebListen ==
    /\ Alive /\ webPc = "listen"
    /\ webPc' = "serving"
    /\ UNCHANGED <<startupVars, crashed, muxPatterns, listenerFailures,
                   boxVars, handlerVars, sessVars, histVars>>

\* WebServer: http.ListenAndServe returns an error (at bind time or later);
\* the error branch calls WebServer(port) again
WebListenerFails ==
    /\ Alive /\ webPc \in {"listen", "serving"}
    /\ listenerFailures' = listenerFailures + 1
    /\ webPc' = "register"
    /\ UNCHANGED <<startupVars, crashed, muxPatterns, boxVars, handlerVars,
                   sessVars, histVars>>

(***************************************************************************)
(* The delivery endpoint: handler (server.go), one goroutine per request.  *)
(***************************************************************************)
\* status codes; the body of a 200 response is recorded in `delivered`
StatusOK == 200
StatusNoContent == 204
StatusUnauthorized == 401
\* nothing written yet
NoResponse == 0

\* handler, empty mailbox: w.WriteHeader(http.StatusNoContent)
EmptyStatusOK == StatusOK
EmptyStatus == StatusNoContent

\* handler: auth != *secretKey
AuthorizedAlways(auth, key) == TRUE
Authorized(auth, key) == auth = key

\* a request arrives: auth := r.URL.Query().Get("secret") and the compare
\* with *secretKey. A handler that has returned is "idle"; hresp keeps the
\* response it wrote until the next request on h.
HandlerAuth(h, auth) ==
    /\ Alive /\ webPc = "serving"
    /\ hpc[h] = "idle"
    /\ hauth' = [hauth EXCEPT ![h] = auth]
    /\ IF ~Authorized(auth, secretKey)
       THEN /\ hresp' = [hresp EXCEPT ![h] = StatusUnauthorized]
            /\ UNCHANGED hpc
       ELSE /\ hresp' = [hresp EXCEPT ![h] = NoResponse]
            /\ hpc' = [hpc EXCEPT ![h] = "get"]
    /\ UNCHANGED <<startupVars, crashed, webVars, boxVars, hfirst, sessVars,
                   histVars>>

\* handler: msgs := getMessages(); if len(msgs) != 0 { first := msgs[0] ...
\* else w.WriteHeader(http.StatusNoContent)
HandlerGet(h) ==
    /\ Alive /\ hpc[h] = "get"
    /\ CanRLock(messagesMu)
    /\ LET msgs == getMessages(messages)
       IN  IF Len(msgs) # 0
           THEN /\ hfirst' = [hfirst EXCEPT ![h] = msgs[1]]
                /\ hpc' = [hpc EXCEPT ![h] = "remove"]
                /\ UNCHANGED <<hresp, hauth>>
           ELSE /\ hresp' = [hresp EXCEPT ![h] = EmptyStatus]
                /\ hpc' = [hpc EXCEPT ![h] = "idle"]
                /\ hauth' = [hauth EXCEPT ![h] = ""]
                /\ UNCHANGED hfirst
    /\ UNCHANGED <<startupVars, crashed, webVars, boxVars, sessVars,
                   histVars>>

\* handler: removeMessage(first.From, first.Content); then the 200 response
\* "<From>---<Content>---<Timestamp>"
HandlerRemove(h) ==
    /\ Alive /\ hpc[h] = "remove"
    /\ CanLock(messagesMu)
    /\ LET first == hfirst[h]
       IN  /\ messages' = removeMessage(messages, first.From, first.Content)
           /\ hresp' = [hresp EXCEPT ![h] = StatusOK]
           /\ delivered' = Append(delivered, first)
    /\ hpc' = [hpc EXCEPT ![h] = "idle"]
    /\ hauth' = [hauth EXCEPT ![h] = ""]
    /\ hfirst' = [hfirst EXCEPT ![h] = NoMsg]
    /\ UNCHANGED <<startupVars, crashed, webVars, messagesMu, clock,
                   sessVars, submitted>>

(***************************************************************************)
(* The terminal session: teaHandler, model, model.Update, model.View.      *)
(* The viewport's content and scroll offset and the terminal geometry are  *)
(* not part of the model: no guard of Update reads them.                   *)
(***************************************************************************)
Anonymous == <<"a", "n", "o", "n", "y", "m", "o", "u", "s">>

\* names the SSH connection can carry (s.User()); <<>> is the empty name
LoginUsers == {<<>>, <<"a", "l">>}

\* keys that carry one rune; msg.String() is that rune
RuneKeys == {"a", " ", "q", "o", "p", "c", "b", "m", "j", "k", "d", "u",
             "g", "G", "0", "1", "2", "3"}
NamedKeys == {"enter", "esc", "backspace", "ctrl+c", "ctrl+n", "ctrl+s",
              "up", "down"}
Keys == RuneKeys \cup NamedKeys

\* a conversion that counts the digit keys from one
AtoiFromOne(k) ==
    CASE k = "0" -> <<0, FALSE>>
      [] k = "1" -> <<0, TRUE>>
      [] k = "2" -> <<1, TRUE>>
      [] k = "3" -> <<2, TRUE>>
      [] OTHER -> <<0, FALSE>>

\* strconv.Atoi(msg.String()) of a key: <<num, ok>>
Atoi(k) ==
    CASE k = "0" -> <<0, TRUE>>
      [] k = "1" -> <<1, TRUE>>
      [] k = "2" -> <<2, TRUE>>
      [] k = "3" -> <<3, TRUE>>
      [] OTHER -> <<0, FALSE>>

\* a handler that keeps s.User() as it came, empty or not
DefaultNameRaw(user) == user

\* teaHandler: username := s.User(); if username == "" { "anonymous" }
DefaultName(user) == IF user = <<>> THEN Anonymous ELSE user

\* teaHandler: the model literal; state is not set and keeps its zero value
BlankModel(user, nPosts) ==
    [state          |-> "",
     numPosts       |-> nPosts,
     selectedPost   |-> Nil,
     inProjectsList |-> TRUE,
     listIndex      |-> 0,
     messageInput   |-> <<>>,
     taFocus        |-> TRUE,
     nameInput      |-> <<>>,
     niFocus        |-> FALSE,
     username       |-> DefaultName(user),
     editingName    |-> FALSE,
     messageSent    |-> FALSE,
     quit           |-> FALSE]

NewModelHome(user, nPosts) == [BlankModel(user, nPosts) EXCEPT !.state = "home"]
NewModel(user, nPosts) == BlankModel(user, nPosts)

\* textarea.Update / textinput.Update on a key: a rune is inserted at the
\* end, backspace deletes the last rune, an unfocused widget ignores keys
InsertRune(v, c) == IF Len(v) < MaxLen THEN Append(v, c) ELSE v

DeleteRune(v) == IF v = <<>> THEN v ELSE SubSeq(v, 1, Len(v) - 1)

\* a textarea that was never focused ignores every key
TextareaUpdateBlurred(v, focus, k) == v

TextareaUpdate(v, focus, k) ==
    IF ~focus THEN v
    ELSE IF k \in RuneKeys THEN InsertRune(v, k)
    ELSE IF k = "enter" THEN InsertRune(v, "\n")
    ELSE IF k = "backspace" THEN DeleteRune(v)
    ELSE v

TextinputUpdate(v, focus, k) ==
    IF ~focus THEN v
    ELSE IF k \in RuneKeys THEN InsertRune(v, k)
    ELSE IF k = "backspace" THEN DeleteRune(v)
    ELSE v

\* list.Model.Update on a key: the cursor moves within the loaded items
ListUpdate(idx, n, k) ==
    IF n = 0 THEN idx
    ELSE IF k \in {"j", "down"} THEN (IF idx < n - 1 THEN idx + 1 ELSE idx)
    ELSE IF k \in {"k", "up"} THEN (IF idx > 0 THEN idx - 1 ELSE idx)
    ELSE IF k = "g" THEN 0
    ELSE IF k = "G" THEN n - 1
    ELSE idx

\* Update, KeyMsg, state "messages" and not sent, editingName
UpdateEditingName(m, k) ==
    CASE k = "ctrl+c" -> [m EXCEPT !.quit = TRUE]
      [] k \in {"enter", "esc"} ->
            [m EXCEPT !.username = IF TrimSpace(m.nameInput) # <<>>
                                   THEN TrimSpace(m.nameInput)
                                   ELSE m.username,
                      !.editingName = FALSE,
                      !.niFocus = FALSE,
                      !.taFocus = TRUE]
      [] OTHER ->
            [m EXCEPT !.nameInput = TextinputUpdate(m.nameInput, m.niFocus, k)]

\* Update, ctrl+s: content := strings.TrimSpace(...); if content != ""
ContentAcceptedAlways(content) == TRUE
ContentAccepted(content) == content # <<>>

\* a body editor whose esc branch leaves without messageInput.Reset()
UpdateEditingBodyKeepsDraft(m, k) ==
    CASE k = "ctrl+c" -> [m EXCEPT !.quit = TRUE]
      [] k = "esc" -> [m EXCEPT !.state = "home"]
      [] k = "ctrl+n" ->
            [m EXCEPT !.editingName = TRUE,
                      !.nameInput = m.username,
                      !.niFocus = TRUE,
                      !.taFocus = FALSE]
      [] k = "ctrl+s" -> m
      [] OTHER ->
            [m EXCEPT !.messageInput =
                          TextareaUpdate(m.messageInput, m.taFocus, k)]

\* Update, KeyMsg, state "messages" and not sent, not editingName; the
\* ctrl+s branch that calls addMessage is the action Submit below
UpdateEditingBody(m, k) ==
    CASE k = "ctrl+c" -> [m EXCEPT !.quit = TRUE]
      [] k = "esc" -> [m EXCEPT !.state = "home", !.messageInput = <<>>]
      [] k = "ctrl+n" ->
            [m EXCEPT !.editingName = TRUE,
                      !.nameInput = m.username,
                      !.niFocus = TRUE,
                      !.taFocus = FALSE]
      [] k = "ctrl+s" -> m
      [] OTHER ->
            [m EXCEPT !.messageInput =
                          TextareaUpdate(m.messageInput, m.taFocus, k)]

\* the switch with a backspace branch that clears the selection but leaves
\* inProjectsList as it is
UpdateSwitchKeepsDetail(m, k) ==
    CASE k \in {"q", "ctrl+c"} -> [m EXCEPT !.quit = TRUE]
      [] k \in {"j", "down", "k", "up", "d", "u", "g", "G"} -> m
      [] k = "o" -> [m EXCEPT !.state = "home"]
      [] k = "backspace" ->
            IF m.state = "projects" /\ ~m.inProjectsList
            THEN [m EXCEPT !.selectedPost = Nil]
            ELSE m
      [] k = "b" -> [m EXCEPT !.state = "blog"]
      [] k = "p" -> [m EXCEPT !.state = "projects", !.inProjectsList = TRUE]
      [] k = "c" -> [m EXCEPT !.state = "contact"]
      [] k = "m" ->
            [m EXCEPT !.state = "messages",
                      !.messageSent = FALSE,
                      !.editingName = FALSE,
                      !.taFocus = TRUE]
      [] k = "enter" ->
            IF m.state = "projects" /\ m.inProjectsList /\ m.numPosts > 0
            THEN [m EXCEPT !.selectedPost = m.listIndex,
                           !.inProjectsList = FALSE]
            ELSE m
      [] OTHER ->
            IF /\ m.state = "projects" /\ m.inProjectsList
               /\ Atoi(k)[2] /\ Atoi(k)[1] >= 0 /\ Atoi(k)[1] < m.numPosts
            THEN [m EXCEPT !.selectedPost = Atoi(k)[1],
                           !.inProjectsList = FALSE]
            ELSE m

\* Update, KeyMsg: the switch on msg.String() below the compose block
UpdateSwitch(m, k) ==
    CASE k \in {"q", "ctrl+c"} -> [m EXCEPT !.quit = TRUE]
      [] k \in {"j", "down", "k", "up", "d", "u", "g", "G"} -> m
      [] k = "o" -> [m EXCEPT !.state = "home"]
      [] k = "backspace" ->
            IF m.state = "projects" /\ ~m.inProjectsList
            THEN [m EXCEPT !.inProjectsList = TRUE, !.selectedPost = Nil]
            ELSE m
      [] k = "b" -> [m EXCEPT !.state = "blog"]
      [] k = "p" -> [m EXCEPT !.state = "projects", !.inProjectsList = TRUE]
      [] k = "c" -> [m EXCEPT !.state = "contact"]
      [] k = "m" ->
            [m EXCEPT !.state = "messages",
                      !.messageSent = FALSE,
                      !.editingName = FALSE,
                      !.taFocus = TRUE]
      [] k = "enter" ->
            IF m.state = "projects" /\ m.inProjectsList /\ m.numPosts > 0
            THEN [m EXCEPT !.selectedPost = m.listIndex,
                           !.inProjectsList = FALSE]
            ELSE m
      [] OTHER ->
            IF /\ m.state = "projects" /\ m.inProjectsList
               /\ Atoi(k)[2] /\ Atoi(k)[1] >= 0 /\ Atoi(k)[1] < m.numPosts
            THEN [m EXCEPT !.selectedPost = Atoi(k)[1],
                           !.inProjectsList = FALSE]
            ELSE m

\* Update: after the switch, state "projects" forwards the message to the
\* list (in the list) or to the viewport (in a detail)
UpdateTail(m, k) ==
    IF m.state = "projects" /\ m.inProjectsList /\ ~m.quit
    THEN [m EXCEPT !.listIndex = ListUpdate(m.listIndex, m.numPosts, k)]
    ELSE m

\* an Update without the compose block above the switch: every key reaches
\* the switch on msg.String()
UpdateNoCapture(m, k) == UpdateTail(UpdateSwitch(m, k), k)

\* an Update whose compose block does not test messageSent
UpdateIgnoresSent(m, k) ==
    IF m.state = "messages"
    THEN IF m.editingName THEN UpdateEditingName(m, k)
         ELSE UpdateEditingBody(m, k)
    ELSE UpdateTail(UpdateSwitch(m, k), k)

\* Update on a tea.KeyMsg, except the ctrl+s that submits
Update(m, k) ==
    IF m.state = "messages" /\ ~m.messageSent
    THEN IF m.editingName THEN UpdateEditingName(m, k)
         ELSE UpdateEditingBody(m, k)
    ELSE UpdateTail(UpdateSwitch(m, k), k)

\* Update reaches addMessage(m.username, content): lines 351-354
Submits(m, k) ==
    /\ m.state = "messages" /\ ~m.messageSent /\ ~m.editingName
    /\ k = "ctrl+s"
    /\ ContentAccepted(TrimSpace(m.messageInput))

\* View: which content is rendered
View(m) ==
    CASE m.state = "home" -> "home"
      [] m.state = "projects" ->
            IF m.inProjectsList THEN "list"
            ELSE IF m.selectedPost # Nil THEN "detail"
            ELSE "blank"
      [] m.state = "contact" -> "contact"
      [] m.state = "blog" -> "blog"
      [] m.state = "messages" ->
            IF m.messageSent THEN "sent"
            ELSE IF m.editingName THEN "editName"
            ELSE "editBody"
      [] OTHER -> "welcome"


\* the connection of s has a running program (no tea.Quit yet)
Connected(s) == IF sess[s] = NoModel THEN FALSE ELSE ~sess[s].quit

\* bubbletea.Middleware(teaHandler): a connection is accepted and its model
\* is built; loadProjects returned nPosts records
Connect(s, user, nPosts) ==
    /\ Alive /\ mainPc = "serve"
    /\ ~Connected(s)
    /\ apc[s] = "idle"
    /\ sess' = [sess EXCEPT ![s] = NewModel(user, nPosts)]
    /\ UNCHANGED <<startupVars, crashed, webVars, boxVars, handlerVars, apc,
                   atmp, histVars>>

\* Update on a tea.KeyMsg that does not reach addMessage
KeyMsg(s, k) ==
    /\ Alive /\ mainPc = "serve"
    /\ Connected(s)
    /\ apc[s] = "idle"
    /\ ~Submits(sess[s], k)
    /\ sess' = [sess EXCEPT ![s] = Update(sess[s], k)]
    /\ UNCHANGED <<startupVars, crashed, webVars, boxVars, handlerVars, apc,
                   atmp, histVars>>

\* Update on the ctrl+s that submits, up to addMessage having taken
\* messagesMu.Lock() and read the slice header of `messages`
Submit(s) ==
    /\ Alive /\ mainPc = "serve"
    /\ Connected(s)
    /\ apc[s] = "idle"
    /\ Submits(sess[s], "ctrl+s")
    /\ clock < MaxMsgs
    /\ CanLock(messagesMu)
    /\ messagesMu' = s
    /\ atmp' = [atmp EXCEPT ![s] = messages]
    /\ apc' = [apc EXCEPT ![s] = "store"]
    /\ UNCHANGED <<startupVars, crashed, webVars, messages, clock,
                   handlerVars, sess, histVars>>

\* addMessage: messages = append(messages, Message{...}), the deferred
\* Unlock, and the rest of the ctrl+s branch of Update
AddStore(s) ==
    /\ Alive /\ apc[s] = "store"
    /\ LET m == sess[s]
           msg == Message(m.username, TrimSpace(m.messageInput), clock + 1)
       IN  /\ messages' = Append(atmp[s], msg)
           /\ submitted' = Append(submitted, msg)
           /\ sess' = [sess EXCEPT ![s] = [m EXCEPT !.messageSent = TRUE,
                                                    !.messageInput = <<>>]]
    /\ clock' = clock + 1
    /\ messagesMu' = NoHolder
    /\ apc' = [apc EXCEPT ![s] = "idle"]
    /\ atmp' = [atmp EXCEPT ![s] = <<>>]
    /\ UNCHANGED <<startupVars, crashed, webVars, handlerVars, delivered>>

(***************************************************************************)
(* Specifications.                                                         *)
(***************************************************************************)
Init ==
    /\ envSecret \in EnvValues
    /\ flagSK \in FlagValues
    /\ secretKey = FlagDefault(envSecret)
    /\ mainPc = "check"
    /\ crashed = ""
    /\ webPc = "notStarted"
    /\ muxPatterns = {}
    /\ listenerFailures = 0
    /\ messages = <<>>
    /\ messagesMu = NoHolder
    /\ clock = 0
    /\ hpc = [h \in Handlers |-> "idle"]
    /\ hauth = [h \in Handlers |-> ""]
    /\ hfirst = [h \in Handlers |-> NoMsg]
    /\ hresp = [h \in Handlers |-> NoResponse]
    /\ sess = [s \in Sessions |-> NoModel]
    /\ apc = [s \in Sessions |-> "idle"]
    /\ atmp = [s \in Sessions |-> <<>>]
    /\ submitted = <<>>
    /\ delivered = <<>>

\* the secret is configured through the environment, no -sK flag
InitConfigured == Init /\ envSecret = "k" /\ flagSK = Absent

\* keys the sessions press in the whole-system specification: "m" opens
\* the compose screen and, once there, is typed into the body
MailKeys == {"m", "ctrl+s"}

\* names the sessions connect with in the whole-system specification
MailUsers == {<<>>}

Startup == MainCheck \/ MainParse \/ MainSpawn

\* Spec: the mailbox with its sessions and pollers, the listener staying up
Next ==
    \/ Startup
    \/ WebRegister
    \/ WebListen
    \/ \E h \in Handlers, auth \in QuerySecrets : HandlerAuth(h, auth)
    \/ \E h \in Handlers : HandlerGet(h)
    \/ \E h \in Handlers : HandlerRemove(h)
    \/ \E s \in Sessions, user \in MailUsers : Connect(s, user, MaxProjects)
    \/ \E s \in Sessions, k \in MailKeys : KeyMsg(s, k)
    \/ \E s \in Sessions : Submit(s)
    \/ \E s \in Sessions : AddStore(s)

Spec == InitConfigured /\ [][Next]_vars

\* SpecSeq: as Spec, with a single poller: a request is only made when no
\* other request is being handled
HandlerAuthSeq(h, auth) ==
    /\ \A g \in Handlers : hpc[g] = "idle"
    /\ HandlerAuth(h, auth)

NextSeq ==
    \/ Startup
    \/ WebRegister
    \/ WebListen
    \/ \E h \in Handlers, auth \in QuerySecrets : HandlerAuthSeq(h, auth)
    \/ \E h \in Handlers : HandlerGet(h)
    \/ \E h \in Handlers : HandlerRemove(h)
    \/ \E s \in Sessions, user \in MailUsers : Connect(s, user, MaxProjects)
    \/ \E s \in Sessions, k \in MailKeys : KeyMsg(s, k)
    \/ \E s \in Sessions : Submit(s)
    \/ \E s \in Sessions : AddStore(s)

SpecSeq == InitConfigured /\ [][NextSeq]_vars

\* SpecBoot: every configuration of SECRET_KEY and -sK, the listener
\* failing at any time, requests on an empty mailbox, sessions connecting
NextBoot ==
    \/ Startup
    \/ WebRegister
    \/ WebListen
    \/ WebListenerFails
    \/ \E h \in Handlers, auth \in QuerySecrets : HandlerAuth(h, auth)
    \/ \E h \in Handlers : HandlerGet(h)
    \/ \E s \in Sessions, user \in MailUsers : Connect(s, user, MaxProjects)
    \/ \E s \in Sessions : KeyMsg(s, "m")

SpecBoot == Init /\ [][NextBoot]_vars

\* SpecSession: one connection and the mailbox, no poller. The user types
\* into the body only letters and blanks from ComposeKeys; outside the
\* compose form the keys come from ScreenKeys.
ComposeKeys == {"m", " ", "backspace", "esc", "ctrl+c", "ctrl+s"}
ScreenKeys == {"m", "o", "q", " ", "esc", "ctrl+c", "ctrl+s"}

\* the compose form accepts text: state "messages" and not messageSent
Composing(s) ==
    IF Connected(s)
    THEN sess[s].state = "messages" /\ ~sess[s].messageSent
    ELSE FALSE

NextSession ==
    \/ Startup
    \/ \E user \in LoginUsers : Connect("s1", user, MaxProjects)
    \/ \E k \in ComposeKeys : Composing("s1") /\ KeyMsg("s1", k)
    \/ \E k \in ScreenKeys : ~Composing("s1") /\ KeyMsg("s1", k)
    \/ Submit("s1")
    \/ AddStore("s1")

SpecSession == InitConfigured /\ [][NextSession]_vars

\* SpecNav: one connection moving through every screen, the list and the
\* compose form with its name editor. Outside the compose form every key is
\* pressed; in the body editor and the name editor the user presses the
\* keys of BodyKeys and NameKeys, and sends only the one-letter draft "o"
\* under the name the connection came with (none, or "a").
NavUsers == {<<>>, <<"a">>}
BodyKeys == {"o", "q", "1", "backspace", "esc", "ctrl+c", "ctrl+n", "ctrl+s"}
NameKeys == {"q", "enter", "esc", "ctrl+c"}

EditingBody(s) == Composing(s) /\ ~sess[s].editingName
EditingName(s) == Composing(s) /\ sess[s].editingName

PlainDraft(s) ==
    IF EditingBody(s)
    THEN /\ sess[s].messageInput = <<"o">>
         /\ \E user \in NavUsers : sess[s].username = DefaultName(user)
    ELSE FALSE

NextNav ==
    \/ Startup
    \/ \E user \in NavUsers, n \in 0..MaxProjects : Connect("s1", user, n)
    \/ \E k \in Keys : ~Composing("s1") /\ KeyMsg("s1", k)
    \/ \E k \in BodyKeys : EditingBody("s1") /\ KeyMsg("s1", k)
    \/ \E k \in NameKeys : EditingName("s1") /\ KeyMsg("s1", k)
    \/ PlainDraft("s1") /\ Submit("s1")
    \/ AddStore("s1")

SpecNav == InitConfigured /\ [][NextNav]_vars

\* SpecName: one connection in the compose form, renaming itself; nothing
\* is sent
NameScreenKeys == {"m", "o", "q", "ctrl+c"}
NameBodyKeys == {"q", "backspace", "esc", "ctrl+c", "ctrl+n"}
NameFieldKeys == {"q", " ", "backspace", "enter", "esc", "ctrl+c"}

NextName ==
    \/ Startup
    \/ \E user \in LoginUsers : Connect("s1", user, MaxProjects)
    \/ \E k \in NameScreenKeys : ~Composing("s1") /\ KeyMsg("s1", k)
    \/ \E k \in NameBodyKeys : EditingBody("s1") /\ KeyMsg("s1", k)
    \/ \E k \in NameFieldKeys : EditingName("s1") /\ KeyMsg("s1", k)

SpecName == InitConfigured /\ [][NextName]_vars

(***************************************************************************)
(* Properties.                                                             *)
(***************************************************************************)
SameIdentity(a, b) == a.From = b.From /\ a.Content = b.Content

\* C1: delivery is at-most-once under every interleaving: no submitted
\* message is the body of more than one 200 response.
C1_AtMostOnce ==
    \A i, j \in 1..Len(delivered) : i # j => delivered[i] # delivered[j]

\* C2: with non-overlapping requests, the messages are returned in exactly
\* insertion order, each once (the 200 responses so far are a prefix of the
\* submissions and the mailbox holds the rest), and a request that finds
\* nothing left is answered 204.
C2_Prefix ==
    /\ Len(delivered) <= Len(submitted)
    /\ \A i \in 1..Len(delivered) : delivered[i] = submitted[i]
    /\ messages = SubSeq(submitted, Len(delivered) + 1, Len(submitted))

C2_Step ==
    \A h \in Handlers :
        hpc[h] = "get" /\ hpc'[h] # "get" =>
            IF Len(delivered) = Len(submitted)
            THEN hpc'[h] = "idle" /\ hresp'[h] = StatusNoContent
            ELSE hpc'[h] = "remove"
                 /\ hfirst'[h] = submitted[Len(delivered) + 1]

C2_Fifo == [](C2_Prefix) /\ [][C2_Step]_vars

C2_Witness ==
    /\ Len(delivered) = 2
    /\ delivered = submitted
    /\ SameIdentity(delivered[1], delivered[2])
    /\ messages = <<>>
    /\ \E h \in Handlers : hpc[h] = "idle" /\ hresp[h] = StatusNoContent

\* C3: once startup has succeeded the secret the endpoint compares against
\* is non-empty, so no request with an empty secret passes the comparison.
C3_SecretNonEmpty ==
    /\ mainPc \in {"spawn", "serve"} => secretKey # ""
    /\ \A h \in Handlers : hpc[h] # "idle" => hauth[h] # ""

\* C4: a request whose secret differs from the configured one is answered
\* 401 in the step that reads it, leaves the mailbox and its lock as they
\* are, and never reaches getMessages or removeMessage.
C4_NoAccess ==
    \A h \in Handlers : hpc[h] # "idle" => hauth[h] = secretKey

C4_Step ==
    \A h \in Handlers :
        /\ hpc[h] = "idle"
        /\ <<hpc[h], hauth[h], hresp[h]>>' # <<hpc[h], hauth[h], hresp[h]>>
        /\ hauth'[h] # secretKey
        => /\ hresp'[h] = StatusUnauthorized
           /\ hpc'[h] = "idle"
           /\ UNCHANGED <<boxVars, histVars, hfirst>>

C4_WrongSecret == [](C4_NoAccess) /\ [][C4_Step]_vars

C4_Witness ==
    /\ hauth["h1"] = "x" /\ hresp["h1"] = StatusUnauthorized
    /\ hpc["h2"] = "remove"
    /\ apc["s1"] = "store"
    /\ messages # <<>>

\* C5: a failure of the delivery listener never ends the process.
C5_RestartKeepsProcess == listenerFailures > 0 => Alive

\* C6: every message in the mailbox has a body that is non-empty after
\* trimming, and from the body editor with a body that trims to empty no
\* step submits, changes the mailbox or shows the Sent screen.
C6_Bodies ==
    /\ \A i \in 1..Len(messages) : TrimSpace(messages[i].Content) # <<>>
    /\ \A s \in Sessions :
          apc[s] = "store" => TrimSpace(sess[s].messageInput) # <<>>

C6_Step ==
    \A s \in Sessions :
        (Composing(s) /\ ~sess[s].editingName
            /\ TrimSpace(sess[s].messageInput) = <<>>)
        => /\ UNCHANGED <<messages, submitted, clock, messagesMu>>
           /\ apc'[s] = "idle"
           /\ ~sess'[s].messageSent

C6_NoEmptyBody == [](C6_Bodies) /\ [][C6_Step]_vars

C6_Witness ==
    /\ Composing("s1")
    /\ sess["s1"].messageInput = <<" ", " ">>
    /\ Len(messages) = 1
    /\ messages[1].Content = <<"m">>

\* C7: as long as no request has removed anything, the mailbox is exactly
\* the sequence of the completed submissions: one entry for each, none
\* lost, none twice.
C7_AllSubmitted ==
    delivered = <<>> =>
        /\ messages = submitted
        /\ Len(messages) = clock
        /\ \A i, j \in 1..Len(messages) : i # j => messages[i] # messages[j]

C7_Witness ==
    /\ delivered = <<>>
    /\ Len(messages) = 2
    /\ messages[1].Content # messages[2].Content
    /\ Connected("s1") /\ sess["s1"].messageSent
    /\ Connected("s2") /\ sess["s2"].messageSent

\* C8 as claimed: removeMessage reports whether it removed an entry.
C8_ReportsRemoval ==
    [][\A h \in Handlers :
          hpc[h] = "remove" /\ hpc'[h] = "idle" =>
              (messages' # messages)
                  \in removeMessageResults(messages, hfirst[h].From,
                                           hfirst[h].Content)]_vars

\* C8, amended: removeMessage removes the first entry that matches sender
\* and body, keeps every other entry in order, and leaves the mailbox as it
\* is when no entry matches.
Matches(msgs, from, content) ==
    {i \in 1..Len(msgs) : msgs[i].From = from /\ msgs[i].Content = content}

C8_Step ==
    \A h \in Handlers :
        hpc[h] = "remove" /\ hpc'[h] = "idle" =>
            LET ms == Matches(messages, hfirst[h].From, hfirst[h].Content)
            IN  IF ms = {} THEN messages' = messages
                ELSE LET i == CHOOSE x \in ms : \A y \in ms : x <= y
                     IN  /\ Len(messages') = Len(messages) - 1
                         /\ \A j \in 1..(i - 1) : messages'[j] = messages[j]
                         /\ \A j \in i..Len(messages') :
                               messages'[j] = messages[j + 1]

C8_RemovesFirstMatch == [][C8_Step]_vars

C8_Witness ==
    /\ Len(delivered) = 1
    /\ Len(messages) = 1
    /\ SameIdentity(messages[1], delivered[1])
    /\ messages[1].Timestamp > delivered[1].Timestamp

\* C9: a request with the right secret that finds the mailbox empty is
\* answered 204 and changes nothing in the mailbox; submissions go on.
C9_Step ==
    \A h \in Handlers :
        hpc[h] = "get" /\ hpc'[h] # "get" /\ messages = <<>> =>
            /\ hresp'[h] = StatusNoContent
            /\ hpc'[h] = "idle"
            /\ UNCHANGED <<boxVars, histVars, sessVars>>

C9_EmptyTake == [][C9_Step]_vars

C9_Witness ==
    /\ hresp["h1"] = StatusNoContent /\ hpc["h1"] = "idle"
    /\ delivered = <<>>
    /\ Len(messages) = 1

\* C10 as claimed: a new session shows the Home screen.
FreshlyConnected(s) == ~Connected(s) /\ Connected(s)'

C10_InitialHome ==
    [][\A s \in Sessions : FreshlyConnected(s) => View(sess'[s]) = "home"]_vars

\* C10, amended: a new session is in the unset state, shown as the Welcome
\* screen, which is not the Home screen that `o` leads to.
C10_InitialWelcome ==
    [][\A s \in Sessions :
          FreshlyConnected(s) =>
              /\ sess'[s].state = ""
              /\ View(sess'[s]) = "welcome"
              /\ View(Update(sess'[s], "o")) = "home"]_vars

C10_Witness ==
    /\ Connected("s1")
    /\ sess["s1"].state = ""
    /\ View(sess["s1"]) = "welcome"

\* c is t without its leading and trailing white space
IsTrimOf(c, t) ==
    \E i \in 0..Len(t) :
        /\ i + Len(c) <= Len(t)
        /\ SubSeq(t, i + 1, i + Len(c)) = c
        /\ \A x \in 1..Len(t) :
               (x <= i \/ x > i + Len(c)) => IsSpace(t[x])
        /\ c # <<>> => ~IsSpace(c[1]) /\ ~IsSpace(c[Len(c)])

\* C11: a ctrl+s on a body that trims to non-empty adds exactly one Mailbox
\* entry, at the end, whose body is the trimmed text and whose sender is the
\* session's display name (the connection username, or "anonymous" for an
\* empty one), and shows the Sent screen; `m` pressed on the Sent screen
\* gives the body editor with an empty body field and adds no entry.
C11_SendThenCompose ==
    [][\A s \in Sessions :
          /\ (apc[s] = "store" /\ apc'[s] = "idle") =>
                 /\ Len(messages') = Len(messages) + 1
                 /\ SubSeq(messages', 1, Len(messages)) = messages
                 /\ LET msg == messages'[Len(messages')]
                    IN  /\ IsTrimOf(msg.Content, sess[s].messageInput)
                        /\ msg.Content # <<>>
                        /\ msg.From = sess[s].username
                        /\ msg.From \in (LoginUsers \ {<<>>}) \cup {Anonymous}
                 /\ View(sess'[s]) = "sent"
          /\ (Connected(s) /\ View(sess[s]) = "sent") =>
                 /\ View(Update(sess[s], "m")) = "editBody"
                 /\ Update(sess[s], "m").messageInput = <<>>
                 /\ ~Submits(sess[s], "m")
          /\ (Connected(s) /\ View(sess[s]) = "sent"
                /\ View(sess'[s]) = "editBody") =>
                 /\ sess'[s].messageInput = <<>>
                 /\ messages' = messages]_vars

\* `m` was pressed after an anonymous connection sent a message
C11_Witness ==
    /\ Connected("s1")
    /\ View(sess["s1"]) = "editBody"
    /\ sess["s1"].messageInput = <<>>
    /\ sess["s1"].username = Anonymous
    /\ Len(messages) = 1
    /\ messages[1].From = Anonymous

NavKeys == {"o", "p", "c", "b", "m"}

\* the screen a navigation key leads to
NavTarget(k) ==
    CASE k = "o" -> "home"
      [] k = "p" -> "list"
      [] k = "c" -> "contact"
      [] k = "b" -> "blog"
      [] k = "m" -> "editBody"

\* the navigation key k, pressed on model m, switches the screen: the
\* target is shown, no compose draft is left, and `m` clears both flags
Navigates(m, k) ==
    LET r == Update(m, k)
    IN  /\ View(r) = NavTarget(k)
        /\ r.messageInput = <<>>
        /\ ~r.quit
        /\ k = "m" => ~r.messageSent /\ ~r.editingName

\* field v after the rune k was typed into it
Typed(v, k) == IF Len(v) < MaxLen THEN v \o <<k>> ELSE v

\* C12: from every session state, the compose editors included, a navigation
\* key switches to its screen at once and leaves no draft.
C12_NavigatesAlways ==
    \A s \in Sessions :
        Connected(s) => \A k \in NavKeys : Navigates(sess[s], k)

\* C12, amended: from every state but the two compose editors a navigation
\* key switches to its screen (o Home, p list, c Contact, b Blog, m body
\* editor with the sent and name-editing flags cleared) and no draft is left;
\* in the body editor and in the name editor the key is typed into the
\* active field and the session stays in that editor with the other field,
\* the display name and the screen unchanged.
C12_NavigatesOutsideEditors ==
    \A s \in Sessions :
        Connected(s) =>
            \A k \in NavKeys :
                LET m == sess[s]
                    r == Update(m, k)
                IN  /\ ~Composing(s) => Navigates(m, k)
                    /\ EditingBody(s) =>
                           /\ r = [m EXCEPT !.messageInput =
                                                Typed(m.messageInput, k)]
                           /\ View(r) = "editBody"
                    /\ EditingName(s) =>
                           /\ r = [m EXCEPT !.nameInput =
                                                Typed(m.nameInput, k)]
                           /\ View(r) = "editName"

\* the navigation key `o` was typed into the body, and the name editor is
\* open on top of it
C12_Witness ==
    /\ EditingName("s1")
    /\ sess["s1"].messageInput = <<"o">>

\* the view modes of a model
InList(m) == m.state = "projects" /\ m.inProjectsList
InDetail(m) ==
    m.state = "projects" /\ ~m.inProjectsList /\ m.selectedPost # Nil
InCompose(m) == m.state = "messages"
InStatic(m) == m.state \in {"home", "contact", "blog"}
InWelcome(m) == m.state = ""

\* how many of the given conditions hold
Count(conds) == Cardinality({i \in 1..Len(conds) : conds[i]})

\* C13: in every reachable session state exactly one of list, detail,
\* composing and static (home, contact, blog) holds; state projects is never
\* without both the list flag and a selected item; editingName is set only
\* while composing.
C13_OneOfFourModes ==
    \A s \in Sessions :
        sess[s] # NoModel =>
            LET m == sess[s]
            IN  /\ Count(<<InList(m), InDetail(m), InCompose(m),
                           InStatic(m)>>) = 1
                /\ ~(m.state = "projects" /\ ~m.inProjectsList
                       /\ m.selectedPost = Nil)
                /\ m.editingName => InCompose(m)

\* C13, amended: exactly one of list, detail, composing, static (home,
\* contact, blog) and the unset initial state (the Welcome screen) holds;
\* state projects is never without both the list flag and a selected item;
\* editingName is set only while composing.
C13_OneViewMode ==
    \A s \in Sessions :
        sess[s] # NoModel =>
            LET m == sess[s]
            IN  /\ Count(<<InList(m), InDetail(m), InCompose(m),
                           InStatic(m), InWelcome(m)>>) = 1
                /\ ~(m.state = "projects" /\ ~m.inProjectsList
                       /\ m.selectedPost = Nil)
                /\ m.editingName => InCompose(m)

\* a detail was opened and then left with backspace, with the name editor
\* used before: the list is shown again with the selection cleared
C13_Witness ==
    /\ Connected("s1")
    /\ InList(sess["s1"])
    /\ sess["s1"].selectedPost = Nil
    /\ sess["s1"].listIndex = 1
    /\ sess["s1"].nameInput # <<>>


\* C14: ctrl+c ends the session from every state, both compose editors
\* included; q ends it from every state but the two editors, where q is
\* typed into the active field and the session goes on in the same state.
C14_QuitRule ==
    \A s \in Sessions :
        Connected(s) =>
            LET m == sess[s]
                r == Update(m, "q")
            IN  /\ Update(m, "ctrl+c").quit
                /\ ~Submits(m, "ctrl+c") /\ ~Submits(m, "q")
                /\ ~Composing(s) => r.quit
                /\ EditingBody(s) =>
                       /\ ~r.quit
                       /\ r.messageInput = Typed(m.messageInput, "q")
                       /\ r.nameInput = m.nameInput
                       /\ View(r) = "editBody"
                /\ EditingName(s) =>
                       /\ ~r.quit
                       /\ r.nameInput = Typed(m.nameInput, "q")
                       /\ r.messageInput = m.messageInput
                       /\ View(r) = "editName"

\* a q typed in the name editor is in the name field, after a q typed in the
\* body editor, and the session goes on
C14_Witness ==
    /\ EditingName("s1")
    /\ sess["s1"].nameInput = <<"a", "q">>
    /\ sess["s1"].messageInput = <<"q">>

\* C15: with one poller at a time and submissions running alongside it, also
\* between a poll's peek and its removal, the poll removes exactly the
\* message it returns, which is the oldest one; every submitted message is
\* returned at most once, oldest first, and is in the mailbox until then.
C15_TakesWhatItReturns ==
    /\ \A h \in Handlers :
           hpc[h] = "remove" =>
               /\ messages # <<>>
               /\ hfirst[h] = messages[1]
               /\ hfirst[h] = submitted[Len(delivered) + 1]
               /\ removeMessage(messages, hfirst[h].From,
                                hfirst[h].Content) = Tail(messages)
    /\ delivered \o messages = submitted
    /\ \A i, j \in 1..Len(submitted) :
           i # j => submitted[i] # submitted[j]

\* a submission took the lock after the poll's peek and before its removal,
\* with the same sender and body as the peeked message
C15_Witness ==
    /\ hpc["h1"] = "remove"
    /\ apc["s1"] = "store"
    /\ Len(messages) = 1
    /\ sess["s1"].username = hfirst["h1"].From
    /\ TrimSpace(sess["s1"].messageInput) = hfirst["h1"].Content

\* C16: no message is lost: under every interleaving of submissions and
\* concurrent polls, entries with the same sender and body included, every
\* submitted message is in the mailbox or has been returned by a poll.
C16_NoneLost ==
    \A i \in 1..Len(submitted) :
        \/ \E j \in 1..Len(messages) : messages[j] = submitted[i]
        \/ \E j \in 1..Len(delivered) : delivered[j] = submitted[i]

\* no leading and no trailing white space, and not empty
Trimmed(t) == t # <<>> /\ ~IsSpace(t[1]) /\ ~IsSpace(t[Len(t)])

\* t is white space only
Blank(t) == \A x \in 1..Len(t) : IsSpace(t[x])

QuitKeys == {"q", "ctrl+c"}

\* C18: on the Sent screen no key edits the body or the name or adds a
\* Mailbox entry (ctrl+s submits nothing), the navigation keys work as
\* elsewhere, and an editor is entered again only by `m`, which gives the
\* body editor with the sent flag and the name-editing flag cleared.
C18_SentIsInert ==
    \A s \in Sessions :
        (Connected(s) /\ View(sess[s]) = "sent") =>
            \A k \in Keys :
                LET m == sess[s]
                    r == Update(m, k)
                IN  /\ r.messageInput = m.messageInput
                    /\ r.messageInput = <<>>
                    /\ r.nameInput = m.nameInput
                    /\ r.username = m.username
                    /\ ~Submits(m, k)
                    /\ k \in NavKeys => View(r) = NavTarget(k)
                    /\ k \notin NavKeys => View(r) = "sent"
                    /\ r.quit <=> k \in QuitKeys
                    /\ View(r) \in {"editBody", "editName"} <=> k = "m"
                    /\ k = "m" => ~r.messageSent /\ ~r.editingName

\* the Sent screen after a second submission: the first Sent screen was left
\* with `m`
C18_Witness ==
    /\ Connected("s1")
    /\ View(sess["s1"]) = "sent"
    /\ Len(messages) = 2

\* the key of the digit d
DigitKey == <<"0", "1", "2", "3">>
Digits == {d \in 0..9 : d < Len(DigitKey)}

\* screen and selection of a model
Screen(m) == <<View(m), m.state, m.inProjectsList, m.selectedPost>>

\* C19: in the list a digit d opens the detail of item d exactly when d is
\* less than the number of loaded items; out of range, the empty list
\* included, the list stays and no item is selected by the key; in a detail
\* backspace returns to the list with the selection cleared; in no other
\* state does a digit or backspace change the screen or the selection.
C19_ListSelection ==
    \A s \in Sessions :
        Connected(s) =>
            LET m == sess[s]
                b == Update(m, "backspace")
            IN  /\ \A d \in Digits :
                       LET r == Update(m, DigitKey[d + 1])
                       IN  IF View(m) = "list"
                           THEN IF d < m.numPosts
                                THEN /\ View(r) = "detail"
                                     /\ r.selectedPost = d
                                ELSE Screen(r) = Screen(m)
                           ELSE Screen(r) = Screen(m)
                /\ IF View(m) = "detail"
                   THEN View(b) = "list" /\ b.selectedPost = Nil
                   ELSE Screen(b) = Screen(m)

\* item 1 of two was opened with its digit while the list cursor was on
\* item 0
C19_Witness ==
    /\ Connected("s1")
    /\ View(sess["s1"]) = "detail"
    /\ sess["s1"].numPosts = 2
    /\ sess["s1"].selectedPost = 1
    /\ sess["s1"].listIndex = 0

\* C20: whenever the session is not actively composing (the screen is not
\* messages, or the sent flag is set) the body draft is empty; leaving the
\* compose editors by esc or by a successful ctrl+s clears it.
C20_DraftEmpty ==
    \A s \in Sessions :
        sess[s] # NoModel =>
            /\ (sess[s].state # "messages" \/ sess[s].messageSent) =>
                   sess[s].messageInput = <<>>
            /\ EditingBody(s) =>
                   LET r == Update(sess[s], "esc")
                   IN  r.state # "messages" /\ r.messageInput = <<>>

C20_LeaveStep ==
    \A s \in Sessions :
        (Composing(s) /\ Connected(s)' /\ ~Composing(s)') =>
            sess'[s].messageInput = <<>>

C20_DraftOnlyWhileComposing == [](C20_DraftEmpty) /\ [][C20_LeaveStep]_vars

\* the body editor was left with esc after the name editor had been used:
\* the session is on Home, nothing was sent, and the draft is empty
C20_Witness ==
    /\ Connected("s1")
    /\ sess["s1"].state = "home"
    /\ ~sess["s1"].messageSent
    /\ sess["s1"].nameInput # <<>>
    /\ sess["s1"].messageInput = <<>>
    /\ messages = <<>>

=============================================================================
